---- MODULE Spec2Model ----
(***************************************************************************)
(* Model of the ERMANGIZER Modbus decoder node (src/ermangizer-modbus.ts). *)
(*                                                                         *)
(* Conventions of the model                                                *)
(*  - a byte buffer is a sequence of integers in 0..255 (1-based here,     *)
(*    0-based in the source: source offset k is index k+1);                *)
(*  - a JavaScript string given as input is the sequence of its character  *)
(*    codes; strings the decoder produces are TLA+ strings;                *)
(*  - a message payload is [type, data]: type "buffer" (data = bytes),     *)
(*    "string" (data = character codes), "array" (data = numbers) or       *)
(*    "other" (a number, an object, undefined: data unused);               *)
(*  - a numeric `value` of a decoded register is held in thousandths       *)
(*    (50.0 is 50000, 234 is 234000), since the scaled values have up to   *)
(*    three decimals; raw_value, code and address are plain integers;      *)
(*  - the timestamp field is left out (it is the wall clock).              *)
(***************************************************************************)
EXTENDS Integers, Sequences, FiniteSets, TLC

\* pc            "ready" before a call, "done" after it
\* input         the payload handed to the decoder (msg.payload on arrival)
\* decoded       the outcome of decodeModbusMessage(input)
\* cfgInputType  config.inputType of the node
\* inputType     this.inputType of the node
\* outputFormat  this.outputFormat of the node
\* msg           the message the node sent for the input
VARIABLES pc, input, decoded, cfgInputType, inputType, outputFormat, msg

vars == <<pc, input, decoded, cfgInputType, inputType, outputFormat, msg>>

(***************************************************************************)
(* Bit operations on non-negative integers.                                *)
(***************************************************************************)
RECURSIVE BitXor(_, _)
BitXor(a, b) ==
    IF a = 0 THEN b
    ELSE IF b = 0 THEN a
    ELSE (((a % 2) + (b % 2)) % 2) + 2 * BitXor(a \div 2, b \div 2)

RECURSIVE BitAnd(_, _)
BitAnd(a, b) ==
    IF a = 0 \/ b = 0 THEN 0
    ELSE ((a % 2) * (b % 2)) + 2 * BitAnd(a \div 2, b \div 2)

(***************************************************************************)
(* Static tables.                                                          *)
(***************************************************************************)
Reg(address, name, unit, description, readOnly) ==
    [address |-> address, name |-> name, unit |-> unit,
     description |-> description, readOnly |-> readOnly]

\* a register with a scale factor, the factor given as <<numerator, denominator>>
RegS(address, name, unit, description, readOnly, scale) ==
    [address |-> address, name |-> name, unit |-> unit,
     description |-> description, readOnly |-> readOnly, scale |-> scale]

MODBUS_REGISTERS ==
    (1  :> RegS(1, "output_frequency", "0.1 Hz", "Current output frequency value", TRUE, <<1, 10>>)) @@
    (2  :> RegS(2, "output_current", "0.1 A", "Current output current value", TRUE, <<1, 10>>)) @@
    (3  :> Reg(3, "input_voltage", "V", "Current input voltage value", TRUE)) @@
    (4  :> Reg(4, "temperature", "°C", "Current temperature display", TRUE)) @@
    (5  :> RegS(5, "pressure", "0.01 bar", "Actual pressure value", TRUE, <<1, 100>>)) @@
    (6  :> Reg(6, "error_code", "", "Error code", TRUE)) @@
    (7  :> Reg(7, "status_code", "", "Status code", TRUE)) @@
    (16 :> Reg(16, "factory_reset", "", "Restore factory settings", FALSE)) @@
    (17 :> RegS(17, "initial_pressure_diff", "0.01 bar", "Initial pressure difference", FALSE, <<1, 100>>)) @@
    (18 :> RegS(18, "water_shortage_pressure", "0.01 bar", "Pressure value during water shortage", FALSE, <<1, 100>>)) @@
    (19 :> Reg(19, "water_shortage_time", "s", "Water shortage time", FALSE)) @@
    (20 :> Reg(20, "carrier_frequency", "", "Carrier frequency", FALSE)) @@
    (21 :> RegS(21, "accel_decel_time", "0.1 ms", "Acceleration and deceleration time", FALSE, <<1, 10>>)) @@
    (22 :> RegS(22, "pressure_tolerance", "0.01 bar", "Allowable pressure error", FALSE, <<1, 100>>)) @@
    (23 :> RegS(23, "min_shutdown_freq", "0.1 Hz", "Minimum shutdown frequency", FALSE, <<1, 10>>)) @@
    (24 :> Reg(24, "continuous_operation", "", "Enable continuous operation", FALSE)) @@
    (25 :> Reg(25, "measurement_range", "bar", "Measurement range selection", FALSE)) @@
    (32 :> Reg(32, "overheat_setting", "°C", "Overheat setting", FALSE)) @@
    (33 :> Reg(33, "direction_setting", "", "Set direction", FALSE)) @@
    (34 :> Reg(34, "local_address", "", "Local address", FALSE)) @@
    (4096 :> RegS(4096, "set_pressure", "0.01 BAR", "Set pressure value", FALSE, <<1, 100>>)) @@
    (4097 :> Reg(4097, "status_command", "", "Command status code", FALSE))

ERROR_CODES ==
    [c \in 0..16 |->
        CASE c = 0  -> "No error"
          [] c = 1  -> "Equipment overcurrent, short circuit"
          [] c = 2  -> "Overload"
          [] c = 3  -> "Low pressure (no pressure sensor)"
          [] c = 4  -> "Overpressure"
          [] c = 5  -> "Low pressure"
          [] c = 6  -> "Overpressure"
          [] c = 7  -> "Phase loss (power phase loss)"
          [] c = 8  -> "Overheating"
          [] c = 9  -> "Insufficient power"
          [] c = 10 -> "Software current overload"
          [] c = 11 -> "Communication failure"
          [] c = 12 -> "Default"
          [] c = 13 -> "Motor locked"
          [] c = 14 -> "Motor phase loss"
          [] c = 15 -> "Motor overspeed"
          [] OTHER  -> "Memory failure (FLASH failure)"]

(***************************************************************************)
(* Outcomes of a call: a returned value or a thrown Error.                 *)
(***************************************************************************)
Returned(v) == [threw |-> FALSE, value |-> v]
Threw(m)    == [threw |-> TRUE, message |-> m]

ErrOddHex      == "Invalid hex string length"
ErrUnsupported == "Unsupported input type. Expected Buffer, hex string or number array."
ErrTooShort    == "Message too short"
ErrCRC         == "CRC check failed"
\* the RangeError of Buffer.readUInt16BE for an offset beyond length - 2
ErrOutOfRange  == "ERR_OUT_OF_RANGE"

(***************************************************************************)
(* inputToBuffer                                                           *)
(***************************************************************************)
\* /\s/ on the characters the inputs use: space, tab, line feed, carriage return
IsWhitespace(c) == c \in {32, 9, 10, 13}

\* upper-case digits not recognised
HexVal_LowerOnly(c) ==
    IF c \in 48..57 THEN c - 48
    ELSE IF c \in 97..102 THEN c - 87
    ELSE -1

\* value of a hexadecimal digit, -1 for any other character
HexVal(c) ==
    IF c \in 48..57 THEN c - 48
    ELSE IF c \in 97..102 THEN c - 87
    ELSE IF c \in 65..70 THEN c - 55
    ELSE -1

\* input.replace(/\s/g, '')
StripWhitespace(s) == SelectSeq(s, LAMBDA c : ~IsWhitespace(c))

\* Buffer.from(hexString, 'hex'): pairs of digits, stopping at the first
\* pair that is not two hexadecimal digits
RECURSIVE HexDecode(_)
HexDecode(s) ==
    IF Len(s) < 2 THEN <<>>
    ELSE IF HexVal(s[1]) < 0 \/ HexVal(s[2]) < 0 THEN <<>>
    ELSE <<16 * HexVal(s[1]) + HexVal(s[2])>> \o HexDecode(SubSeq(s, 3, Len(s)))

\* Buffer.from(array): every element is taken modulo 256
ArrayToBytes(a) == [i \in 1..Len(a) |-> a[i] % 256]

\* the length of the hex string not checked
inputToBuffer_NoLengthCheck(in) ==
    IF in.type = "buffer" THEN Returned(in.data)
    ELSE IF in.type = "string" THEN Returned(HexDecode(StripWhitespace(in.data)))
    ELSE IF in.type = "array" THEN Returned(ArrayToBytes(in.data))
    ELSE Threw(ErrUnsupported)

inputToBuffer(in) ==
    IF in.type = "buffer" THEN Returned(in.data)
    ELSE IF in.type = "string" THEN
        LET hexString == StripWhitespace(in.data) IN
        IF Len(hexString) % 2 # 0 THEN Threw(ErrOddHex)
        ELSE Returned(HexDecode(hexString))
    ELSE IF in.type = "array" THEN Returned(ArrayToBytes(in.data))
    ELSE Threw(ErrUnsupported)

(***************************************************************************)
(* CRC-16                                                                  *)
(***************************************************************************)
CrcInit == 65535
CrcPoly == 40961

RECURSIVE CrcRounds(_, _)
CrcRounds(crc, j) ==
    IF j = 0 THEN crc
    ELSE IF BitAnd(crc, 1) # 0
         THEN CrcRounds(BitXor(crc \div 2, CrcPoly), j - 1)
         ELSE CrcRounds(crc \div 2, j - 1)

\* the outer loop from index i on; the accumulator stays a 16-bit value
\* (testing it also makes the evaluation of each step strict)
RECURSIVE CrcFrom(_, _, _)
CrcFrom(crc, data, i) ==
    IF i > Len(data) THEN crc
    ELSE LET next == CrcRounds(BitXor(crc, data[i]), 8) IN
         IF next \in 0..65535 THEN CrcFrom(next, data, i + 1) ELSE next

calculateCRC16(data) == CrcFrom(CrcInit, data, 1)

\* data.readUInt16LE(offset), offset 0-based, in range
readUInt16LE(data, offset) == data[offset + 1] + 256 * data[offset + 2]

\* the received checksum read high byte first
verifyCRC_BigEndian(data) ==
    IF Len(data) < 2 THEN FALSE
    ELSE data[Len(data) - 1] * 256 + data[Len(data)]
            = calculateCRC16(SubSeq(data, 1, Len(data) - 2))

verifyCRC(data) ==
    IF Len(data) < 2 THEN FALSE
    ELSE LET messageWithoutCRC == SubSeq(data, 1, Len(data) - 2)
             receivedCRC == readUInt16LE(data, Len(data) - 2)
             calculatedCRC == calculateCRC16(messageWithoutCRC)
         IN receivedCRC = calculatedCRC

(***************************************************************************)
(* Register value decoding                                                 *)
(***************************************************************************)
\* Number((rawValue * scale).toFixed(3)), in thousandths, scale = <<num, den>>
ToFixed3(rawValue, scale) ==
    (2 * rawValue * scale[1] * 1000 + scale[2]) \div (2 * scale[2])

\* the two flags taken from each other's bit
decodeStatusRegister_SwappedBits(status) ==
    [water_shortage |-> BitAnd(status, 2) # 0,
     running |-> BitAnd(status, 1) # 0,
     raw_value |-> status]

decodeStatusRegister(status) ==
    [water_shortage |-> BitAnd(status, 1) # 0,
     running |-> BitAnd(status, 2) # 0,
     raw_value |-> status]

statusMap ==
    (0 :> "invalid") @@ (1 :> "running") @@ (4 :> "stop") @@ (17 :> "error reset")

rangeMap ==
    (6 :> "6 bar") @@ (10 :> "10 bar") @@ (16 :> "16 bar") @@ (25 :> "25 bar")

decodeRegisterValue(register, rawValue) ==
    LET value == IF "scale" \in DOMAIN register
                 THEN ToFixed3(rawValue, register.scale)
                 ELSE rawValue * 1000
    IN CASE register.address = 6 ->
              [code |-> rawValue,
               description |-> IF rawValue \in DOMAIN ERROR_CODES
                               THEN ERROR_CODES[rawValue] ELSE "Unknown error",
               raw_value |-> rawValue]
         [] register.address = 7 -> decodeStatusRegister(rawValue)
         [] register.address = 20 ->
              [value |-> IF rawValue = 72 THEN "H" ELSE "L",
               code |-> rawValue,
               raw_value |-> rawValue]
         [] register.address = 4097 ->
              [code |-> rawValue,
               description |-> IF rawValue \in DOMAIN statusMap
                               THEN statusMap[rawValue] ELSE "Unknown status",
               raw_value |-> rawValue]
         [] register.address = 25 ->
              [value |-> IF rawValue \in DOMAIN rangeMap
                         THEN rangeMap[rawValue]
                         ELSE "Unknown (" \o ToString(rawValue) \o ")",
               code |-> rawValue,
               raw_value |-> rawValue]
         [] OTHER -> [value |-> value, raw_value |-> rawValue]

(***************************************************************************)
(* Frame parsing                                                           *)
(***************************************************************************)
HexCharsLower ==
    <<"0", "1", "2", "3", "4", "5", "6", "7", "8", "9", "a", "b", "c", "d", "e", "f">>
HexCharsUpper ==
    <<"0", "1", "2", "3", "4", "5", "6", "7", "8", "9", "A", "B", "C", "D", "E", "F">>

\* n.toString(16).padStart(4, '0')
RECURSIVE ToHexLower(_)
ToHexLower(n) ==
    IF n < 16 THEN HexCharsLower[n + 1]
    ELSE ToHexLower(n \div 16) \o HexCharsLower[(n % 16) + 1]

PadStart4(n) ==
    IF n < 16 THEN "000" \o ToHexLower(n)
    ELSE IF n < 256 THEN "00" \o ToHexLower(n)
    ELSE IF n < 4096 THEN "0" \o ToHexLower(n)
    ELSE ToHexLower(n)

\* buffer.toString('hex').toUpperCase()
RECURSIVE ToHexUpper(_, _)
ToHexUpper(buffer, i) ==
    IF i > Len(buffer) THEN ""
    ELSE HexCharsUpper[(buffer[i] \div 16) + 1] \o HexCharsUpper[(buffer[i] % 16) + 1]
         \o ToHexUpper(buffer, i + 1)

\* buffer.readUInt16BE(offset): a RangeError unless offset + 2 <= length
readUInt16BE(buffer, offset) ==
    IF offset + 2 > Len(buffer) THEN Threw(ErrOutOfRange)
    ELSE Returned(256 * buffer[offset + 1] + buffer[offset + 2])

getFunctionName(code) ==
    CASE code = 3 -> "Read Holding Registers"
      [] code = 6 -> "Write Single Register"
      [] code = 131 -> "Error Response"
      [] OTHER -> "Unknown (" \o ToString(code) \o ")"

\* registers[key] = entry
SetKey(registers, key, entry) ==
    [k \in DOMAIN registers \cup {key} |-> IF k = key THEN entry ELSE registers[k]]

\* the empty object {}
EmptyMap == [k \in {} |-> 0]

\* the entry of one position of a 0x03 response
ReadEntry(registerAddress, registerValue) ==
    IF registerAddress \in DOMAIN MODBUS_REGISTERS
    THEN LET register == MODBUS_REGISTERS[registerAddress]
             decodedValue == decodeRegisterValue(register, registerValue)
         IN [key |-> register.name,
             entry |-> [unit |-> register.unit,
                        description |-> register.description,
                        address |-> register.address,
                        read_only |-> register.readOnly] @@ decodedValue]
    ELSE [key |-> "unknown_0x" \o PadStart4(registerAddress),
          entry |-> [value |-> registerValue * 1000,
                     raw_value |-> registerValue,
                     unit |-> "unknown",
                     description |-> "Unknown register",
                     address |-> registerAddress]]

\* source offset of position i of a 0x03 response
ReadOffset(i) == 3 + i * 2

\* addresses counted from 0
ReadAddress_FromZero(i) == i

\* logical address of position i of a 0x03 response
ReadAddress(i) == 1 + i

\* the loop of the 0x03 branch from position i on: the registers map, or
\* the RangeError of the first read beyond the buffer
RECURSIVE ReadLoop(_, _, _, _)
ReadLoop(buffer, byteCount, i, registers) ==
    IF ~(2 * i < byteCount) THEN Returned(registers)
    ELSE LET r == readUInt16BE(buffer, ReadOffset(i)) IN
         IF r.threw THEN r
         ELSE LET e == ReadEntry(ReadAddress(i), r.value) IN
              ReadLoop(buffer, byteCount, i + 1, SetKey(registers, e.key, e.entry))

ReadHoldingRegisters(buffer) == ReadLoop(buffer, buffer[3], 0, EmptyMap)

\* the 0x06 branch
WriteSingleRegister(buffer) ==
    LET a == readUInt16BE(buffer, 2) IN
    IF a.threw THEN a
    ELSE LET v == readUInt16BE(buffer, 4) IN
         IF v.threw THEN v
         ELSE IF a.value \in DOMAIN MODBUS_REGISTERS
              THEN LET register == MODBUS_REGISTERS[a.value]
                       decodedValue == decodeRegisterValue(register, v.value)
                   IN Returned(SetKey(EmptyMap, register.name,
                          [unit |-> register.unit,
                           description |-> register.description,
                           address |-> a.value,
                           read_only |-> register.readOnly,
                           operation |-> "write"] @@ decodedValue))
              ELSE Returned(EmptyMap)

errorDescriptions ==
    (1 :> "Illegal Function") @@ (2 :> "Illegal Data Address") @@
    (3 :> "Illegal Data Value") @@ (4 :> "Server Device Failure")

\* the code taken from the function-code byte
ErrorResponse_WrongByte(buffer) ==
    LET errorCode == buffer[2] IN
    [code |-> errorCode,
     description |-> "Modbus Error: " \o
                     (IF errorCode \in DOMAIN errorDescriptions
                      THEN errorDescriptions[errorCode] ELSE "Unknown error"),
     modbus_error |-> TRUE]

\* the 0x83 branch: the error object
ErrorResponse(buffer) ==
    LET errorCode == buffer[3] IN
    [code |-> errorCode,
     description |-> "Modbus Error: " \o
                     (IF errorCode \in DOMAIN errorDescriptions
                      THEN errorDescriptions[errorCode] ELSE "Unknown error"),
     modbus_error |-> TRUE]

\* decodeModbusMessage after the length and CRC checks
ParseFrame(buffer) ==
    LET slaveAddress == buffer[1]
        functionCode == buffer[2]
        result == [slave_address |-> slaveAddress,
                   function_code |-> functionCode,
                   function_name |-> getFunctionName(functionCode),
                   raw_data |-> ToHexUpper(buffer, 1),
                   registers |-> EmptyMap]
    IN IF functionCode = 3 THEN
           LET r == ReadHoldingRegisters(buffer) IN
           IF r.threw THEN r ELSE Returned([result EXCEPT !.registers = r.value])
       ELSE IF functionCode = 6 THEN
           LET r == WriteSingleRegister(buffer) IN
           IF r.threw THEN r ELSE Returned([result EXCEPT !.registers = r.value])
       ELSE IF functionCode = 131 THEN
           Returned(("error" :> ErrorResponse(buffer)) @@ result)
       ELSE Returned(result)

\* the CRC verified before the length
CheckFrame_CrcFirst(buffer) ==
    IF ~verifyCRC(buffer) THEN ErrCRC
    ELSE IF Len(buffer) < 4 THEN ErrTooShort
    ELSE "ok"

\* the checks of decodeModbusMessage on the normalised buffer, in order:
\* the message of the failure, or "ok"
CheckFrame(buffer) ==
    IF Len(buffer) < 4 THEN ErrTooShort
    ELSE IF ~verifyCRC(buffer) THEN ErrCRC
    ELSE "ok"

decodeModbusMessage(in) ==
    LET b == inputToBuffer(in) IN
    IF b.threw THEN b
    ELSE LET c == CheckFrame(b.value) IN
         IF c # "ok" THEN Threw(c) ELSE ParseFrame(b.value)

(***************************************************************************)
(* The node's input handler                                                *)
(***************************************************************************)
\* /^[0-9a-fA-F\s]+$/.test(inputData)
IsHexText(s) ==
    /\ Len(s) > 0
    /\ \A i \in 1..Len(s) : HexVal(s[i]) >= 0 \/ IsWhitespace(s[i])

\* this.inputType after the auto-detection block
DetectInputType(current, inputData) ==
    IF current = "auto" THEN
        IF inputData.type = "buffer" THEN "buffer"
        ELSE IF inputData.type = "string" /\ IsHexText(inputData.data) THEN "hexstring"
        ELSE IF inputData.type = "array" THEN "array"
        ELSE current
    ELSE current

\* the simplified projection of a decode result
Simplified(decodedData) ==
    LET regs == decodedData.registers
        keys == {"slave", "function"} \cup DOMAIN regs
                \cup (IF "error" \in DOMAIN decodedData THEN {"error"} ELSE {})
    IN [k \in keys |->
          IF k = "error" /\ "error" \in DOMAIN decodedData THEN decodedData.error
          ELSE IF k \in DOMAIN regs
               THEN (IF "value" \in DOMAIN regs[k] THEN regs[k].value ELSE regs[k])
          ELSE IF k = "slave" THEN decodedData.slave_address
          ELSE decodedData.function_name]

\* the message sent for inputData, d being the outcome of decodeModbusMessage
\* and detected this.inputType after the auto-detection
Emit(detected, format, inputData, d) ==
       IF d.threw
       THEN [kind |-> "failure",
             payload |-> [error |-> d.message,
                          input_type |-> detected,
                          original_data |-> inputData],
             error |-> d.message]
       ELSE [kind |-> "success",
             payload |-> IF format = "simplified" THEN Simplified(d.value) ELSE d.value,
             originalPayload |-> inputData]

\* the message sent for inputData by a node whose this.inputType is `current`
Handle(current, format, inputData) ==
    Emit(DetectInputType(current, inputData), format, inputData,
         decodeModbusMessage(inputData))

NoInput == [type |-> "other", data |-> <<>>]
NoMsg == [kind |-> "none"]
NotDecoded == Threw("not called")

(***************************************************************************)
(* Inputs                                                                  *)
(***************************************************************************)
MaxBodyLen == 4
MaxRegs == 9

ByteVals == {0, 2, 3, 6, 131}
RegBases == {500, 65464}
WriteAddrs == {1, 6, 7, 8, 20, 25, 4097}
WriteVals == {0, 3, 72, 500}

Hi(w) == w \div 256
Lo(w) == w % 256

WithCRC(body) ==
    LET c == calculateCRC16(body) IN body \o <<Lo(c), Hi(c)>>

WithBadCRC(body) ==
    LET c == calculateCRC16(body) IN body \o <<BitXor(Lo(c), 1), Hi(c)>>

Bodies == UNION {[1..n -> ByteVals] : n \in 0..MaxBodyLen}

\* a 0x03 response with the given byte count and the data of n registers,
\* register i holding (base + 257 * i) mod 2^16
ReadBody(byteCount, n, base) ==
    <<63, 3, byteCount>> \o
    [k \in 1..(2 * n) |->
        LET w == (base + 257 * ((k - 1) \div 2)) % 65536
        IN IF k % 2 = 1 THEN Hi(w) ELSE Lo(w)]

WriteBody(a, v) == <<63, 6, Hi(a), Lo(a), Hi(v), Lo(v)>>

ReadmeExample1 ==
    <<63, 3, 0, 44, 63, 3, 44, 1, 244, 0, 1, 0, 234, 0, 32, 0, 0, 0, 0, 0, 0, 0, 1,
      0, 0, 0, 0, 0, 1, 0, 30, 0, 10, 0, 30, 0, 76, 0, 20, 0, 10, 0, 240, 0, 0, 0, 6,
      0, 85, 0, 0, 0, 63, 56, 238>>

ReadmeExample2 == <<63, 131, 2, 161, 61>>

Frames ==
    Bodies
    \cup {WithCRC(b) : b \in Bodies}
    \cup {WithBadCRC(b) : b \in Bodies}
    \cup {WithCRC(ReadBody(2 * n, n, base)) : n \in 0..MaxRegs, base \in RegBases}
    \cup {WithCRC(ReadBody(2 * n - 1, n, base)) : n \in 1..MaxRegs, base \in RegBases}
    \cup {WithCRC(WriteBody(a, v)) : a \in WriteAddrs, v \in WriteVals}
    \cup {ReadmeExample1, ReadmeExample2}

LowerChar(d) == IF d < 10 THEN 48 + d ELSE 87 + d
UpperChar(d) == IF d < 10 THEN 48 + d ELSE 55 + d

RECURSIVE HexText(_, _, _)
HexText(bytes, i, style) ==
    IF i > Len(bytes) THEN <<>>
    ELSE LET h == bytes[i] \div 16
             l == bytes[i] % 16
         IN (CASE style = "hexlower" -> <<LowerChar(h), LowerChar(l)>>
               [] style = "hexupper" -> <<UpperChar(h), UpperChar(l)>>
               [] OTHER -> <<32, UpperChar(h), 9, LowerChar(l), 10>>)
            \o HexText(bytes, i + 1, style)

\* the encodings of a byte sequence
Styles == {"buffer", "array", "hexlower", "hexupper", "hexspaced"}

Encode(bytes, style) ==
    CASE style = "buffer" -> [type |-> "buffer", data |-> bytes]
      [] style = "array" -> [type |-> "array", data |-> bytes]
      [] OTHER -> [type |-> "string", data |-> HexText(bytes, 1, style)]

\* a hex string of odd length: the digits of the bytes and one more
OddHex(bytes) == [type |-> "string", data |-> HexText(bytes, 1, "hexlower") \o <<48>>]

\* "3f030"
OddExample == [type |-> "string", data |-> <<51, 102, 48, 51, 48>>]

OtherInputs ==
    { NoInput,
      OddExample,
      [type |-> "string", data |-> <<>>],
      \* "zz3f": no leading pair of hex digits
      [type |-> "string", data |-> <<122, 122, 51, 102>>],
      \* "zz3": odd and not hexadecimal
      [type |-> "string", data |-> <<122, 122, 51>>],
      \* "3f8302a13dzz": the digits before the first non-hex pair
      [type |-> "string", data |-> HexText(ReadmeExample2, 1, "hexlower") \o <<122, 122>>],
      \* numbers beyond 255 in an array
      [type |-> "array", data |-> <<319, 131, 2, 161, 317>>] }

Inputs ==
    {Encode(f, s) : f \in Frames, s \in Styles}
    \cup {OddHex(f) : f \in Frames}
    \cup OtherInputs

(***************************************************************************)
(* Specification of the decoder: one call of decodeModbusMessage           *)
(***************************************************************************)
Init ==
    /\ pc = "ready"
    /\ input \in Inputs
    /\ decoded = NotDecoded
    /\ cfgInputType = "auto"
    /\ inputType = "auto"
    /\ outputFormat = "detailed"
    /\ msg = NoMsg

Decode ==
    /\ pc = "ready"
    /\ decoded' = decodeModbusMessage(input)
    /\ pc' = "done"
    /\ UNCHANGED <<input, cfgInputType, inputType, outputFormat, msg>>

Next == Decode

Spec == Init /\ [][Next]_vars

(***************************************************************************)
(* Specification of the node: messages arriving one after another          *)
(***************************************************************************)
InputTypeSettings == {"", "auto", "buffer", "hexstring", "array"}
OutputFormats == {"detailed", "simplified"}

NodePayloads ==
    {Encode(f, s) : f \in {ReadmeExample2, WithCRC(ReadBody(14, 7, 500)),
                           WithCRC(WriteBody(20, 72)),
                           WithBadCRC(<<63, 3, 0>>), <<63, 3>>},
                    s \in {"buffer", "array", "hexlower"}}
    \cup {Encode(ReadmeExample1, s) : s \in {"buffer", "hexlower"}}
    \cup OtherInputs

\* RED.nodes.createNode and the constructor's assignments
NodeInit ==
    /\ pc = "ready"
    /\ input = NoInput
    /\ decoded = NotDecoded
    /\ cfgInputType \in InputTypeSettings
    /\ inputType = (IF cfgInputType = "" THEN "auto" ELSE cfgInputType)
    /\ outputFormat \in OutputFormats
    /\ msg = NoMsg

\* the 'input' event handler
Input(p) ==
    /\ input' = p
    /\ inputType' = DetectInputType(inputType, p)
    /\ decoded' = decodeModbusMessage(p)
    /\ msg' = Emit(inputType', outputFormat, p, decoded')
    /\ pc' = "done"
    /\ UNCHANGED <<cfgInputType, outputFormat>>

NodeNext == \E p \in NodePayloads : Input(p)

NodeSpec == NodeInit /\ [][NodeNext]_vars

(***************************************************************************)
(* Properties                                                              *)
(***************************************************************************)
\* the call has returned or thrown
Done == pc = "done"

\* the input is a raw buffer: the frame is its bytes
IsFrame == input.type = "buffer"

ThrewWith(m) == decoded.threw /\ decoded.message = m

\* C1 -- the README's first example, given as a hex string, decodes to
\* slave 63, function 3 "Read Holding Registers", and the simplified
\* projection holds output_frequency 50.0, output_current 5.0,
\* input_voltage 234, temperature 32, pressure 0.0, error_code 0 and
\* status_code 0.
C1_ReadmeExample1 ==
    (Done /\ input = Encode(ReadmeExample1, "hexlower")) =>
        /\ ~decoded.threw
        /\ decoded.value.slave_address = 63
        /\ decoded.value.function_code = 3
        /\ decoded.value.function_name = "Read Holding Registers"
        /\ outputFormat = "simplified" =>
            /\ msg.payload["output_frequency"] = 50000
            /\ msg.payload["output_current"] = 5000
            /\ msg.payload["input_voltage"] = 234000
            /\ msg.payload["temperature"] = 32000
            /\ msg.payload["pressure"] = 0
            /\ msg.payload["error_code"] = 0
            /\ msg.payload["status_code"] = 0

\* The Modbus CRC-16 told bit by bit on a 16-bit shift register (element 1
\* is the low bit): each message bit, low bit of each byte first, is XORed
\* with the low bit of the register, the register is shifted right, and the
\* taps at bits 0, 13 and 15 are inverted when that XOR was 1.
RegisterOnes == [k \in 1..16 |-> 1]
Taps == {1, 14, 16}

ShiftIn(reg, bit) ==
    LET fb == (reg[1] + bit) % 2
    IN [k \in 1..16 |->
          LET shifted == IF k < 16 THEN reg[k + 1] ELSE 0
          IN IF k \in Taps THEN (shifted + fb) % 2 ELSE shifted]

RECURSIVE ShiftByte(_, _, _)
ShiftByte(reg, byte, j) ==
    IF j = 8 THEN reg
    ELSE ShiftByte(ShiftIn(reg, (byte \div (2 ^ j)) % 2), byte, j + 1)

RECURSIVE ShiftBytes(_, _, _)
ShiftBytes(reg, bytes, i) ==
    IF i > Len(bytes) THEN reg
    ELSE LET next == ShiftByte(reg, bytes[i], 0) IN
         IF Len(next) = 16 THEN ShiftBytes(next, bytes, i + 1) ELSE next

RECURSIVE RegisterValue(_, _)
RegisterValue(reg, k) ==
    IF k > 16 THEN 0 ELSE reg[k] * (2 ^ (k - 1)) + RegisterValue(reg, k + 1)

ModbusCRC(bytes) == RegisterValue(ShiftBytes(RegisterOnes, bytes, 1), 1)

\* the last two bytes, low byte first
TrailingWord(frame) == frame[Len(frame) - 1] + 256 * frame[Len(frame)]

BodyOf(frame) == SubSeq(frame, 1, Len(frame) - 2)

\* C2 -- a frame of 4 or more bytes fails with 'CRC check failed' exactly
\* when its last two bytes, read low byte first, differ from the Modbus
\* CRC-16 of the bytes before them.
C2_CrcErrorIffMismatch ==
    (Done /\ IsFrame /\ Len(input.data) >= 4) =>
        (ThrewWith(ErrCRC) <=> TrailingWord(input.data) # ModbusCRC(BodyOf(input.data)))

\* a body of 2 bytes with its CRC appended has passed the verification
C2_Witness ==
    /\ Done /\ IsFrame
    /\ Len(input.data) = 4
    /\ BodyOf(input.data) = <<0, 131>>
    /\ TrailingWord(input.data) = ModbusCRC(<<0, 131>>)
    /\ ~decoded.threw

\* C3 -- the only failures of decodeModbusMessage are the input-format
\* failure, the frame-too-short failure and the checksum failure.
C3_OnlyThreeFailures ==
    (Done /\ decoded.threw) =>
        decoded.message \in {ErrOddHex, ErrUnsupported, ErrTooShort, ErrCRC}

\* the number of characters of s that are no whitespace
DigitCount(s) == Cardinality({i \in 1..Len(s) : s[i] \notin {32, 9, 10, 13}})

\* the input is a buffer, an array of bytes, or a string of hexadecimal
\* digits and whitespace with an even number of digits: n is its byte count
NormalisesTo(n) ==
    \/ input.type \in {"buffer", "array"} /\ Len(input.data) = n
    \/ /\ input.type = "string"
       /\ \A i \in 1..Len(input.data) :
             input.data[i] \in (48..57) \cup (65..70) \cup (97..102) \cup {32, 9, 10, 13}
       /\ DigitCount(input.data) = 2 * n

\* C4 -- a hex string with an odd number of characters after stripping
\* whitespace fails with the input-format error whatever its content, and
\* an input of fewer than 4 bytes fails with 'Message too short' whatever
\* its last two bytes.
C4_StageOrder ==
    Done =>
        /\ (input.type = "string" /\ DigitCount(input.data) % 2 = 1)
              => ThrewWith(ErrOddHex)
        /\ (\E n \in 0..3 : NormalisesTo(n)) => ThrewWith(ErrTooShort)

\* "3f030" has failed with the input-format error
C4_Witness == Done /\ input = OddExample /\ ThrewWith(ErrOddHex)

\* C5 as stated -- an input of fewer than 2 bytes fails with the checksum
\* failure.
C5_ShortIsChecksumError ==
    (Done /\ (\E n \in 0..1 : NormalisesTo(n))) => ThrewWith(ErrCRC)

\* C5 as amended -- an input of fewer than 2 bytes fails with 'Message too
\* short' and not with the checksum failure.
C5_ShortIsTooShort ==
    (Done /\ (\E n \in 0..1 : NormalisesTo(n))) =>
        (ThrewWith(ErrTooShort) /\ ~ThrewWith(ErrCRC))

\* a one-byte buffer has been rejected
C5_Witness ==
    Done /\ IsFrame /\ Len(input.data) = 1 /\ ThrewWith(ErrTooShort)

\* the text of a Modbus exception code
ExceptionText(code) ==
    CASE code = 1 -> "Modbus Error: Illegal Function"
      [] code = 2 -> "Modbus Error: Illegal Data Address"
      [] code = 3 -> "Modbus Error: Illegal Data Value"
      [] code = 4 -> "Modbus Error: Server Device Failure"
      [] OTHER -> "Modbus Error: Unknown error"

\* C6 -- a returned frame has an error field exactly when its function code
\* is 0x83; then error.code is byte 2, error.description the text of the
\* code, error.modbus_error is true and the registers map is empty; for a
\* function code other than 0x03, 0x06 and 0x83 the registers map is empty
\* and no error is set; 3f8302a13d decodes to function 131 "Error Response"
\* with error code 2 "Modbus Error: Illegal Data Address".
C6_ErrorResponse ==
    /\ (Done /\ IsFrame /\ ~decoded.threw) =>
          LET r == decoded.value IN
          /\ ("error" \in DOMAIN r) <=> (input.data[2] = 131)
          /\ r.function_code = input.data[2]
          /\ r.function_code = 131 =>
                /\ r.error.code = input.data[3]
                /\ r.error.description = ExceptionText(input.data[3])
                /\ r.error.modbus_error = TRUE
                /\ DOMAIN r.error = {"code", "description", "modbus_error"}
                /\ DOMAIN r.registers = {}
          /\ r.function_code \notin {3, 6, 131} =>
                (DOMAIN r.registers = {} /\ "error" \notin DOMAIN r)
    /\ (Done /\ input = Encode(ReadmeExample2, "hexlower")) =>
          /\ ~decoded.threw
          /\ decoded.value.function_code = 131
          /\ decoded.value.function_name = "Error Response"
          /\ decoded.value.error.code = 2
          /\ decoded.value.error.description = "Modbus Error: Illegal Data Address"
          /\ DOMAIN decoded.value.registers = {}

\* 3f8302a13d has been decoded to a frame with an error field
C6_Witness ==
    /\ Done /\ input = Encode(ReadmeExample2, "hexlower")
    /\ ~decoded.threw /\ "error" \in DOMAIN decoded.value

\* C7 -- the bytes of a buffer, given instead as an array of the same
\* integers or as a hex string in lower case, in upper case, or in mixed
\* case with whitespace between the digits, give the outcome the buffer
\* gives: the same failure or the same frame.
C7_EncodingEquivalence ==
    (Done /\ IsFrame) =>
        \A s \in Styles : decodeModbusMessage(Encode(input.data, s)) = decoded

\* a CRC-valid frame of 5 bytes has been decoded from its buffer
C7_Witness ==
    /\ Done /\ IsFrame /\ input.data = ReadmeExample2 /\ ~decoded.threw
    /\ Encode(input.data, "hexspaced").data # Encode(input.data, "hexlower").data

\* C8 -- the message sent for an input is the one a node just created with
\* the same settings sends for that input alone.
C8_NoCarriedState ==
    Done =>
        msg = Handle(IF cfgInputType = "" THEN "auto" ELSE cfgInputType,
                     outputFormat, input)

\* the key of position i of a 0x03 response: the name of the register at
\* address 1 + i, or unknown_0x and the address in 4 lower-case hex digits
HexDigit(d) == HexCharsLower[d + 1]

Hex4(n) ==
    HexDigit((n \div 4096) % 16) \o HexDigit((n \div 256) % 16)
        \o HexDigit((n \div 16) % 16) \o HexDigit(n % 16)

KeyOf(i) ==
    IF (1 + i) \in DOMAIN MODBUS_REGISTERS
    THEN MODBUS_REGISTERS[1 + i].name
    ELSE "unknown_0x" \o Hex4(1 + i)

\* the positions i with 0 <= i < byteCount / 2
Positions(byteCount) == {i \in 0..byteCount : 2 * i < byteCount}

\* a CRC-valid 0x03 frame has been decoded to a frame
ReadDecoded ==
    /\ Done /\ IsFrame /\ ~decoded.threw
    /\ input.data[2] = 3

C10_NoCrcAsRegisterData ==
    (Done /\ IsFrame /\ ~decoded.threw) =>
        /\ input.data[2] = 3 =>
              \A i \in Positions(input.data[3]) :
                 KeyOf(i) \in DOMAIN decoded.value.registers
                    => 3 + 2 * i + 2 <= Len(input.data) - 2
        /\ input.data[2] = 6 => 4 + 2 <= Len(input.data) - 2

\* a CRC-valid frame of 4 or more bytes with function code 0x06 has been
\* handed to the decoder as a buffer
WriteFrame ==
    /\ Done /\ IsFrame
    /\ Len(input.data) >= 4
    /\ TrailingWord(input.data) = ModbusCRC(BodyOf(input.data))
    /\ input.data[2] = 6

\* the big-endian word at source offset k of the frame
WordAt(k) == 256 * input.data[k + 1] + input.data[k + 2]

\* the entry the claim gives for a write to a known address
WriteEntryHolds(e, register, address, value) ==
    LET dv == decodeRegisterValue(register, value) IN
    /\ DOMAIN e = DOMAIN dv \cup {"unit", "description", "address",
                                  "read_only", "operation"}
    /\ \A f \in DOMAIN dv \ {"description"} : e[f] = dv[f]
    /\ e.raw_value = value
    /\ e.unit = register.unit
    /\ e.description = register.description
    /\ e.read_only = register.readOnly
    /\ e.address = address
    /\ e.operation = "write"

\* C11 -- a CRC-valid 0x06 frame, its address the big-endian word at offset
\* 2 and its value the one at offset 4, decodes to a frame without error
\* field whose registers map holds, when the address is in the register
\* table, exactly one entry keyed by the register's name with the decoded
\* value, the register's unit, description and read_only, the address and
\* operation "write", and is empty when the address is not in the table.
C11_WriteSingleRegister ==
    WriteFrame =>
        /\ ~decoded.threw
        /\ "error" \notin DOMAIN decoded.value
        /\ LET regs == decoded.value.registers
               address == WordAt(2)
           IN IF address \in DOMAIN MODBUS_REGISTERS
              THEN LET register == MODBUS_REGISTERS[address] IN
                   /\ DOMAIN regs = {register.name}
                   /\ WriteEntryHolds(regs[register.name], register, address, WordAt(4))
              ELSE DOMAIN regs = {}

\* the same for the frames of 6 or more bytes, which hold both words
C11_FullWriteFrames ==
    (WriteFrame /\ Len(input.data) >= 6) => C11_WriteSingleRegister

(***************************************************************************)
(* Specification of the value decoder: one call of decodeRegisterValue on  *)
(* a descriptor of the register table and a raw 16-bit value               *)
(***************************************************************************)
MaxRaw == 40

\* raw values beyond MaxRaw: the carrier code, larger and the largest words
SpecialRaws == {72, 73, 255, 256, 500, 1234, 32768, 65534, 65535}

Raws == (0..MaxRaw) \cup SpecialRaws

\* the arguments of the call: data = <<register address, raw value>>
RegisterInputs ==
    {[type |-> "register", data |-> <<a, r>>] : a \in DOMAIN MODBUS_REGISTERS, r \in Raws}

RegInit ==
    /\ pc = "ready"
    /\ input \in RegisterInputs
    /\ decoded = NotDecoded
    /\ cfgInputType = "auto"
    /\ inputType = "auto"
    /\ outputFormat = "detailed"
    /\ msg = NoMsg

DecodeRegister ==
    /\ pc = "ready"
    /\ decoded' = Returned(decodeRegisterValue(MODBUS_REGISTERS[input.data[1]], input.data[2]))
    /\ pc' = "done"
    /\ UNCHANGED <<input, cfgInputType, inputType, outputFormat, msg>>

RegNext == DecodeRegister

RegSpec == RegInit /\ [][RegNext]_vars

\* the texts of the claim for the status command and the measurement range
StatusText(raw) ==
    CASE raw = 0 -> "invalid"
      [] raw = 1 -> "running"
      [] raw = 4 -> "stop"
      [] raw = 17 -> "error reset"
      [] OTHER -> "Unknown status"

RangeText(raw) ==
    CASE raw = 6 -> "6 bar"
      [] raw = 10 -> "10 bar"
      [] raw = 16 -> "16 bar"
      [] raw = 25 -> "25 bar"
      [] OTHER -> "Unknown (" \o ToString(raw) \o ")"

\* decodeRegisterValue has returned for a descriptor and a raw value
RegisterDecoded == Done /\ input.type = "register" /\ ~decoded.threw

\* C12 -- for every descriptor of the register table and every raw value,
\* decodeRegisterValue returns the representation fixed by the address:
\* 0x0006 code = raw and the error-table text for 0..16, else "Unknown
\* error"; 0x0007 water_shortage = bit 0 and running = bit 1; 0x0014 'H'
\* for 72, else 'L'; 0x1001 invalid/running/stop/error reset for 0/1/4/17,
\* else "Unknown status"; 0x0019 "6 bar"/"10 bar"/"16 bar"/"25 bar" for
\* 6/10/16/25, else "Unknown (<raw>)"; any other register value = raw *
\* scale to 3 decimals when it has a scale and value = raw otherwise;
\* raw_value is always the raw input.
C12_RegisterValue ==
    RegisterDecoded =>
        LET a == input.data[1]
            raw == input.data[2]
            register == MODBUS_REGISTERS[a]
            v == decoded.value
        IN /\ v.raw_value = raw
           /\ a = 6 =>
                 /\ DOMAIN v = {"code", "description", "raw_value"}
                 /\ v.code = raw
                 /\ v.description = (IF raw \in 0..16 THEN ERROR_CODES[raw]
                                     ELSE "Unknown error")
           /\ a = 7 =>
                 /\ DOMAIN v = {"water_shortage", "running", "raw_value"}
                 /\ v.water_shortage = (raw % 2 = 1)
                 /\ v.running = ((raw \div 2) % 2 = 1)
           /\ a = 20 =>
                 /\ DOMAIN v = {"value", "code", "raw_value"}
                 /\ v.value = (IF raw = 72 THEN "H" ELSE "L")
                 /\ v.code = raw
           /\ a = 4097 =>
                 /\ DOMAIN v = {"code", "description", "raw_value"}
                 /\ v.code = raw
                 /\ v.description = StatusText(raw)
           /\ a = 25 =>
                 /\ DOMAIN v = {"value", "code", "raw_value"}
                 /\ v.value = RangeText(raw)
                 /\ v.code = raw
           /\ a \notin {6, 7, 20, 4097, 25} =>
                 /\ DOMAIN v = {"value", "raw_value"}
                 /\ IF "scale" \in DOMAIN register
                    THEN v.value * register.scale[2] = raw * 1000 * register.scale[1]
                    ELSE v.value = raw * 1000

\* the status register has been decoded for a raw value with bit 1 set and
\* bit 0 clear
C12_Witness ==
    /\ RegisterDecoded
    /\ input.data = <<7, 2>>
    /\ decoded.value.running /\ ~decoded.value.water_shortage

====
